---- MODULE Spec2Model ----
(***************************************************************************)
(* Se3SpaceMouse (core/teleop_devices/se3_spacemouse.py) and               *)
(* sky_from_env_cfg (assets/light/sky.py).                                 *)
(*                                                                         *)
(* Numbers are fixed point.  Raw device axes and the two sensitivities are *)
(* in tenths (x = 1.0 is 10, roll = 0.1 is 1, 0.4 is 4); the products kept *)
(* in _delta_pos and _delta_rot are therefore in hundredths (0.8 is 80).   *)
(* The arithmetic is exact; floating point rounding is not modelled.       *)
(*                                                                         *)
(* Two threads run the adapter: the caller of the public API ("main") and  *)
(* the daemon thread started by __init__ ("poll").  The driver delivers    *)
(* _cb_dof and _cb_button from inside pyspacemouse.read(), that is, on the *)
(* poll thread.  Every read or write of an attribute of self is a step of  *)
(* its own, since the interpreter may switch threads between any two.      *)
(***************************************************************************)
EXTENDS Integers, Sequences, FiniteSets, TLC

\* ---------------------------------------------------------------- bounds
\* raw axis values range over multiples of -MaxAxis..MaxAxis
MaxAxis == 1
\* the callables a caller may register are 1..MaxFunc
MaxFunc == 2
\* a device reports 2..MaxButtons buttons
MaxButtons == 3

\* ------------------------------------------------------- program constants
\* pos_sensitivity: float = 0.4
DefaultPosSensitivity == 4
\* rot_sensitivity: float = 0.8
DefaultRotSensitivity == 8

VARIABLES
    pos_sensitivity,        \* self.pos_sensitivity (tenths)
    rot_sensitivity,        \* self.rot_sensitivity (tenths)
    _close_gripper,         \* self._close_gripper
    _delta_pos,             \* self._delta_pos (hundredths)
    _delta_rot,             \* self._delta_rot (hundredths)
    _additional_callbacks,  \* self._additional_callbacks: key -> callable
    _thread,                \* number of threads __init__ has started
    opened,                 \* outcome of pyspacemouse.open: "none" before the call
    nbuttons,               \* number of buttons of the opened device
    pcMain,                 \* position of the caller thread
    advLocal,               \* advance(): values read so far
    ret,                    \* value returned by the last advance()
    arg,                    \* add_callback(): the (key, func) of the call that just ended
    pcPoll,                 \* position of the poll thread
    ev,                     \* the event the driver is delivering
    tmp,                    \* _cb_button: the operand loaded for "not self._close_gripper"
    fired,                  \* callables invoked by the current _cb_button, in order
    regTouched,             \* add_callback stored into the registry during the current _cb_button
    rhist,                  \* the latest consecutive right-button events: see Chain
    skyIn,                  \* sky_from_env_cfg: the arguments of the last call
    skyOut                  \* sky_from_env_cfg: what the last call returned or raised

vars == <<pos_sensitivity, rot_sensitivity, _close_gripper, _delta_pos, _delta_rot,
          _additional_callbacks, _thread, opened, nbuttons, pcMain, advLocal, ret,
          arg, pcPoll, ev, tmp, fired, regTouched, rhist, skyIn, skyOut>>

shared == <<_close_gripper, _delta_pos, _delta_rot>>
skyVars == <<skyIn, skyOut>>
cfgVars == <<pos_sensitivity, rot_sensitivity, opened, nbuttons, _thread>>
mainVars == <<pcMain, advLocal, ret, arg>>
pollVars == <<pcPoll, ev, tmp, fired>>

\* ---------------------------------------------------------------- values
Zero3 == <<0, 0, 0>>

\* np.zeros(3)
np_zeros3 == Zero3

\* the callables handed to add_callback
Funcs == 1..MaxFunc

\* the keys add_callback accepts
ValidKeys == {"L", "R", "LR"}

\* the keys callers try
KeyInputs == ValidKeys \cup {"left", "right", "left+right", "X"}

\* the sensitivities of an adapter built without arguments
Defaults == {<<DefaultPosSensitivity, DefaultRotSensitivity>>}

\* sensitivities passed to the constructor
Sensitivities == Defaults \cup {<<10, 5>>, <<1, 20>>}

\* the outcomes of pyspacemouse.open
OpenOutcomes == {"success", "false", "raise"}

\* pyspacemouse.SpaceNavigator states the driver hands to _cb_dof
DofStates ==
    { [x |-> 10 * i, y |-> 20 * i, z |-> 30 * i,
       roll |-> i, pitch |-> 2 * i, yaw |-> 3 * i] : i \in -MaxAxis..MaxAxis }

\* states whose axes vary two by two, for _cb_dof taken alone
DofStatesWide ==
    { [x |-> 10 * a, y |-> 20 * b, z |-> 30 * a,
       roll |-> b, pitch |-> 2 * a, yaw |-> 3 * b] :
         a \in -MaxAxis..MaxAxis, b \in -MaxAxis..MaxAxis }

NoState == [x |-> 0, y |-> 0, z |-> 0, roll |-> 0, pitch |-> 0, yaw |-> 0]

\* button vectors of a device with n buttons
ButtonVectors(n) == [1..n -> BOOLEAN]

NoEvent == [type |-> "none", state |-> NoState, buttons |-> <<>>]
DofEvent(s) == [type |-> "dof", state |-> s, buttons |-> <<>>]
ButtonEvent(b) == [type |-> "button", state |-> NoState, buttons |-> b]

\* all(buttons)
all(buttons) == \A i \in 1..Len(buttons) : buttons[i]

\* buttons[0], buttons[1]
Left(buttons) == buttons[1]
Right(buttons) == buttons[2]

\* ------------------------------------------------------ Rotation (scipy)
\* An angle strictly inside (-pi, pi), in hundredths of a radian.
SmallAngle(a) == a > -314 /\ a < 314

NonZeroAxes(e) == {i \in 1..3 : e[i] # 0}

\* Rotation.from_euler("XYZ", e).as_rotvec().  A rotation about one axis by less
\* than a half turn has the rotation vector e itself (the zero rotation included).
\* Any other composition has no closed form in fixed point: exact = FALSE marks
\* v as the intrinsic XYZ angles of the rotation whose vector is meant.
as_rotvec(e) ==
    IF Cardinality(NonZeroAxes(e)) <= 1 /\ \A i \in 1..3 : SmallAngle(e[i])
    THEN [exact |-> TRUE, v |-> e]
    ELSE [exact |-> FALSE, v |-> e]

\* np.concatenate([self._delta_pos, rot_vec]), self._close_gripper
AdvanceResult(p, rv, g, c) == [pos |-> p, rot_vec |-> rv, gripper |-> g, valid |-> TRUE, clean |-> c]

\* ret before any advance() has returned, and after a write has made it stale
NoResult == [pos |-> Zero3, rot_vec |-> as_rotvec(Zero3), gripper |-> FALSE, valid |-> FALSE, clean |-> FALSE]

\* advance() locals outside a call
NoLocal == [rot_vec |-> as_rotvec(Zero3), pos |-> Zero3, clean |-> FALSE]

\* add_callback() arguments outside a call
NoArg == [key |-> "", func |-> 0]

\* the empty dict
EmptyDict == [k \in {} |-> 0]

\* ----------------------------------------------------------------- Init
\* Lines 22-30 have run: inputs stored, command buffers cleared; the device is
\* not opened yet.
InitWith(sensitivities) ==
    /\ \E s \in sensitivities : pos_sensitivity = s[1] /\ rot_sensitivity = s[2]
    /\ _close_gripper = FALSE
    /\ _delta_pos = np_zeros3
    /\ _delta_rot = np_zeros3
    /\ _additional_callbacks = EmptyDict
    /\ _thread = 0
    /\ opened = "none"
    /\ nbuttons = 0
    /\ pcMain = "__init__"
    /\ advLocal = NoLocal
    /\ ret = NoResult
    /\ arg = NoArg
    /\ pcPoll = "none"
    /\ ev = NoEvent
    /\ tmp = FALSE
    /\ fired = <<>>
    /\ regTouched = FALSE
    /\ rhist = <<>>
    /\ skyIn = [called |-> FALSE]
    /\ skyOut = [kind |-> "none"]

Init == InitWith(Defaults)

\* ------------------------------------------------------------- helpers
\* self._additional_callbacks[key] = func
\* the entry a key already has kept (dict.setdefault)
DictStoreKeepFirst(d, key, func) ==
    [k \in DOMAIN d \cup {key} |-> IF k \in DOMAIN d THEN d[k] ELSE func]

DictStore(d, key, func) ==
    [k \in DOMAIN d \cup {key} |-> IF k = key THEN func ELSE d[k]]

\* the thread started whenever open did not raise, its result ignored
StartsThreadUnlessRaised(outcome) == outcome # "raise"

\* the thread started whatever open did
StartsThreadAlways(outcome) == TRUE

\* "if success:" (line 38): the thread is started when open returned true
StartsThread(outcome) == outcome = "success"

\* the axes scaled but not remapped
DofPosUnmapped(s, ps) == <<s.x * ps, s.y * ps, s.z * ps>>

\* _cb_dof: the value assigned to self._delta_pos
DofPos(s, ps) == <<s.y * ps, (-s.x) * ps, s.z * ps>>

\* _cb_dof: the value assigned to self._delta_rot
DofRot(s, rs) == <<(-s.roll) * rs, (-s.pitch) * rs, (-s.yaw) * rs>>

\* the latch set instead of toggled
ToggledSet(g) == TRUE

\* "not self._close_gripper" applied to the loaded operand
Toggled(g) == ~g

\* reset(), one statement each
reset_gripper == _close_gripper' = FALSE /\ UNCHANGED <<_delta_pos, _delta_rot>>
reset_pos_skipped == UNCHANGED <<_close_gripper, _delta_pos, _delta_rot>>
reset_pos == _delta_pos' = np_zeros3 /\ UNCHANGED <<_close_gripper, _delta_rot>>
reset_rot == _delta_rot' = np_zeros3 /\ UNCHANGED <<_close_gripper, _delta_pos>>

\* a write by the poll thread: a result held by the caller is stale, an
\* advance() in progress is no longer undisturbed
PollWrote ==
    /\ ret' = NoResult
    /\ advLocal' = [advLocal EXCEPT !.clean = FALSE]
    /\ UNCHANGED <<pcMain, arg>>

\* History for the button events in which the right button is pressed: the
\* latch when the current one began and whether left is pressed too, preceded,
\* when both this event and the one before it have the left button up, by the
\* same for the one before.  The history is emptied by any other event and by
\* every write of a reset() the caller thread runs, so that what it holds was
\* consecutive and undisturbed.
Chain(h, g, b) ==
    LET e == [latch |-> g, left |-> Left(b)]
    IN  IF Len(h) >= 1 /\ ~Left(b) /\ ~h[Len(h)].left
        THEN <<h[Len(h)], e>>
        ELSE <<e>>

\* what a registered callable is recorded with when it is invoked
Invocation(key) ==
    [key |-> key, func |-> _additional_callbacks[key], seen |-> shared]

\* ------------------------------------------------------------ __init__
\* Lines 32-52: one attempt to open the device; on success the daemon thread
\* is created and started, otherwise a message goes to stderr.
__init__(counts) ==
    /\ pcMain = "__init__"
    /\ \E outcome \in OpenOutcomes, n \in counts :
        /\ opened' = outcome
        /\ IF StartsThread(outcome)
           THEN /\ _thread' = _thread + 1
                /\ pcPoll' = "read"
           ELSE /\ _thread' = _thread
                /\ pcPoll' = "none"
        /\ nbuttons' = IF pcPoll' = "read" THEN n ELSE 0
    /\ pcMain' = "idle"
    /\ UNCHANGED <<pos_sensitivity, rot_sensitivity, shared, _additional_callbacks,
                   advLocal, ret, arg, ev, tmp, fired, regTouched, rhist, skyVars>>

\* ------------------------------------------------------------- advance
\* Line 77: self._delta_rot is read and converted.
advance_rot ==
    /\ pcMain = "idle"
    /\ advLocal' = [rot_vec |-> as_rotvec(_delta_rot), pos |-> Zero3, clean |-> TRUE]
    /\ pcMain' = "advance_pos"
    /\ UNCHANGED <<skyVars, cfgVars, shared, _additional_callbacks, ret, arg, pollVars,
                   regTouched, rhist>>

\* advance() consuming the translation it read
advance_pos_consuming ==
    /\ pcMain = "advance_pos"
    /\ advLocal' = [advLocal EXCEPT !.pos = _delta_pos]
    /\ _delta_pos' = np_zeros3
    /\ pcMain' = "advance_gripper"
    /\ UNCHANGED <<skyVars, cfgVars, _close_gripper, _delta_rot, _additional_callbacks, ret, arg,
                   pollVars, regTouched, rhist>>

\* advance() taking the translation from the rotation buffer
advance_pos_from_rot ==
    /\ pcMain = "advance_pos"
    /\ advLocal' = [advLocal EXCEPT !.pos = _delta_rot]
    /\ pcMain' = "advance_gripper"
    /\ UNCHANGED <<skyVars, cfgVars, shared, _additional_callbacks, ret, arg, pollVars,
                   regTouched, rhist>>

\* Line 78: self._delta_pos is read.
advance_pos ==
    /\ pcMain = "advance_pos"
    /\ advLocal' = [advLocal EXCEPT !.pos = _delta_pos]
    /\ pcMain' = "advance_gripper"
    /\ UNCHANGED <<skyVars, cfgVars, shared, _additional_callbacks, ret, arg, pollVars,
                   regTouched, rhist>>

\* advance() releasing the latch it read
advance_return_releasing ==
    /\ pcMain = "advance_gripper"
    /\ ret' = AdvanceResult(advLocal.pos, advLocal.rot_vec, _close_gripper, advLocal.clean)
    /\ _close_gripper' = FALSE
    /\ advLocal' = NoLocal
    /\ pcMain' = "idle"
    /\ UNCHANGED <<skyVars, cfgVars, _delta_pos, _delta_rot, _additional_callbacks, arg, pollVars,
                   regTouched, rhist>>

\* Line 78: self._close_gripper is read and the pair is returned.
advance_return ==
    /\ pcMain = "advance_gripper"
    /\ ret' = AdvanceResult(advLocal.pos, advLocal.rot_vec, _close_gripper, advLocal.clean)
    /\ advLocal' = NoLocal
    /\ pcMain' = "idle"
    /\ UNCHANGED <<skyVars, cfgVars, shared, _additional_callbacks, arg, pollVars,
                   regTouched, rhist>>

\* --------------------------------------------------------------- reset
\* reset() called by the caller thread, lines 65, 66, 67.
reset_65 ==
    /\ pcMain = "idle"
    /\ reset_gripper
    /\ pcMain' = "reset_pos"
    /\ ret' = NoResult
    /\ rhist' = <<>>
    /\ UNCHANGED <<skyVars, cfgVars, _additional_callbacks, advLocal, arg, pollVars, regTouched>>

reset_66 ==
    /\ pcMain = "reset_pos"
    /\ reset_pos
    /\ pcMain' = "reset_rot"
    /\ ret' = NoResult
    /\ rhist' = <<>>
    /\ UNCHANGED <<skyVars, cfgVars, _additional_callbacks, advLocal, arg, pollVars, regTouched>>

reset_67 ==
    /\ pcMain = "reset_rot"
    /\ reset_rot
    /\ pcMain' = "idle"
    /\ ret' = NoResult
    /\ rhist' = <<>>
    /\ UNCHANGED <<skyVars, cfgVars, _additional_callbacks, advLocal, arg, pollVars, regTouched>>

\* -------------------------------------------------------- add_callback
\* add_callback() storing before it validates
add_callback_stores_first(key, func) ==
    /\ pcMain = "idle"
    /\ arg' = [key |-> key, func |-> func]
    /\ _additional_callbacks' = DictStore(_additional_callbacks, key, func)
    /\ regTouched' = TRUE
    /\ pcMain' = IF key \notin ValidKeys THEN "ValueError" ELSE "add_callback_done"
    /\ UNCHANGED <<skyVars, cfgVars, shared, advLocal, ret, pollVars, rhist>>

\* add_callback() making a new registry of the one entry
add_callback_replacing(key, func) ==
    /\ pcMain = "idle"
    /\ arg' = [key |-> key, func |-> func]
    /\ IF key \notin ValidKeys
       THEN /\ pcMain' = "ValueError"
            /\ UNCHANGED <<_additional_callbacks, regTouched>>
       ELSE /\ _additional_callbacks' = DictStore(EmptyDict, key, func)
            /\ regTouched' = TRUE
            /\ pcMain' = "add_callback_done"
    /\ UNCHANGED <<skyVars, cfgVars, shared, advLocal, ret, pollVars, rhist>>

\* Lines 70-74: a key outside the list raises ValueError, any other is stored.
add_callback(key, func) ==
    /\ pcMain = "idle"
    /\ arg' = [key |-> key, func |-> func]
    /\ IF key \notin ValidKeys
       THEN /\ pcMain' = "ValueError"
            /\ UNCHANGED <<_additional_callbacks, regTouched>>
       ELSE /\ _additional_callbacks' = DictStore(_additional_callbacks, key, func)
            /\ regTouched' = TRUE
            /\ pcMain' = "add_callback_done"
    /\ UNCHANGED <<skyVars, cfgVars, shared, advLocal, ret, pollVars, rhist>>

\* The caller goes on after add_callback returned or raised.
caller_continue ==
    /\ pcMain \in {"ValueError", "add_callback_done"}
    /\ pcMain' = "idle"
    /\ arg' = NoArg
    /\ UNCHANGED <<skyVars, cfgVars, shared, _additional_callbacks, advLocal, ret, pollVars,
                   regTouched, rhist>>

\* -------------------------------------------------------------- __del__
\* Line 55: self._thread.join().  The attribute exists only when __init__
\* started the thread; join returns only once the thread has ended.
__del__ ==
    /\ pcMain = "idle"
    /\ pcMain' = IF _thread = 0 THEN "AttributeError" ELSE "join"
    /\ UNCHANGED <<skyVars, cfgVars, shared, _additional_callbacks, advLocal, ret, arg,
                   pollVars, regTouched, rhist>>

join_return ==
    /\ pcMain = "join"
    /\ pcPoll = "dead"
    /\ pcMain' = "closed"
    /\ UNCHANGED <<skyVars, cfgVars, shared, _additional_callbacks, advLocal, ret, arg,
                   pollVars, regTouched, rhist>>

\* ---------------------------------------------------------- _run_device
\* Line 82: pyspacemouse.read() returns without having delivered an event, or
\* after the callback it invoked has returned; its value is discarded.
read_return ==
    /\ pcPoll \in {"read", "returned"}
    /\ pcPoll' = "sleep"
    /\ ev' = NoEvent
    /\ fired' = <<>>
    /\ regTouched' = FALSE
    /\ UNCHANGED <<skyVars, cfgVars, shared, _additional_callbacks, mainVars, tmp, rhist>>

\* Line 82: pyspacemouse.read() raises; nothing catches it and the thread ends.
read_raise ==
    /\ pcPoll = "read"
    /\ pcPoll' = "dead"
    /\ UNCHANGED <<skyVars, cfgVars, shared, _additional_callbacks, mainVars, ev, tmp, fired,
                   regTouched, rhist>>

\* the loop body run once: the thread ends after the sleep
sleep_once ==
    /\ pcPoll = "sleep"
    /\ pcPoll' = "dead"
    /\ UNCHANGED <<skyVars, cfgVars, shared, _additional_callbacks, mainVars, ev, tmp, fired,
                   regTouched, rhist>>

\* Line 83: time.sleep(self.sleep_rate), then the loop reads again.
sleep ==
    /\ pcPoll = "sleep"
    /\ pcPoll' = "read"
    /\ UNCHANGED <<skyVars, cfgVars, shared, _additional_callbacks, mainVars, ev, tmp, fired,
                   regTouched, rhist>>

\* Inside read(): the driver calls dof_callback with a new state.
deliver_dof(states) ==
    /\ pcPoll = "read"
    /\ \E s \in states : ev' = DofEvent(s)
    /\ pcPoll' = "_cb_dof"
    /\ rhist' = <<>>
    /\ UNCHANGED <<skyVars, cfgVars, shared, _additional_callbacks, mainVars, tmp, fired,
                   regTouched>>

\* Inside read(): the driver calls button_callback with the button vector.
deliver_button ==
    /\ pcPoll = "read"
    /\ \E b \in ButtonVectors(nbuttons) :
        /\ ev' = ButtonEvent(b)
        /\ rhist' = IF Right(b) THEN Chain(rhist, _close_gripper, b) ELSE <<>>
    /\ pcPoll' = "_cb_button"
    /\ fired' = <<>>
    /\ regTouched' = FALSE
    /\ UNCHANGED <<skyVars, cfgVars, shared, _additional_callbacks, mainVars, tmp>>

\* -------------------------------------------------------------- _cb_dof
\* the motion callback releasing the gripper as it takes the translation
_cb_dof_pos_releasing ==
    /\ pcPoll = "_cb_dof"
    /\ _delta_pos' = DofPos(ev.state, pos_sensitivity)
    /\ _close_gripper' = FALSE
    /\ pcPoll' = "_cb_dof_rot"
    /\ PollWrote
    /\ UNCHANGED <<skyVars, cfgVars, _delta_rot, _additional_callbacks, ev, tmp,
                   fired, regTouched, rhist>>

\* Lines 86-92: self._delta_pos is replaced.
_cb_dof_pos ==
    /\ pcPoll = "_cb_dof"
    /\ _delta_pos' = DofPos(ev.state, pos_sensitivity)
    /\ pcPoll' = "_cb_dof_rot"
    /\ PollWrote
    /\ UNCHANGED <<skyVars, cfgVars, _close_gripper, _delta_rot, _additional_callbacks, ev, tmp,
                   fired, regTouched, rhist>>

\* Lines 93-99: self._delta_rot is replaced.
_cb_dof_rot ==
    /\ pcPoll = "_cb_dof_rot"
    /\ _delta_rot' = DofRot(ev.state, rot_sensitivity)
    /\ pcPoll' = "returned"
    /\ PollWrote
    /\ UNCHANGED <<skyVars, cfgVars, _close_gripper, _delta_pos, _additional_callbacks, ev, tmp,
                   fired, regTouched, rhist>>

\* ----------------------------------------------------------- _cb_button
\* the left branch invoking its callable without self.reset()
_cb_button_left_no_reset ==
    /\ pcPoll = "_cb_button"
    /\ pcPoll' = IF Left(ev.buttons) THEN "L_in" ELSE "_cb_button_right"
    /\ UNCHANGED <<skyVars, cfgVars, shared, _additional_callbacks, mainVars, ev, tmp, fired,
                   regTouched, rhist>>

\* Line 102, and line 65 through self.reset() when buttons[0] is set.
_cb_button_left ==
    /\ pcPoll = "_cb_button"
    /\ IF Left(ev.buttons)
       THEN /\ reset_gripper
            /\ pcPoll' = "L_reset_pos"
            /\ PollWrote
       ELSE /\ pcPoll' = "_cb_button_right"
            /\ UNCHANGED <<shared, mainVars>>
    /\ UNCHANGED <<skyVars, cfgVars, _additional_callbacks, ev, tmp, fired, regTouched, rhist>>

\* Line 66 through self.reset().
_cb_button_reset_pos ==
    /\ pcPoll = "L_reset_pos"
    /\ reset_pos
    /\ pcPoll' = "L_reset_rot"
    /\ PollWrote
    /\ UNCHANGED <<skyVars, cfgVars, _additional_callbacks, ev, tmp, fired, regTouched, rhist>>

\* Line 67 through self.reset().
_cb_button_reset_rot ==
    /\ pcPoll = "L_reset_rot"
    /\ reset_rot
    /\ pcPoll' = "L_in"
    /\ PollWrote
    /\ UNCHANGED <<skyVars, cfgVars, _additional_callbacks, ev, tmp, fired, regTouched, rhist>>

\* Lines 104, 108, 111: if key in self._additional_callbacks.keys()
\* Lines 105, 109, 112: self._additional_callbacks[key]()
KeyIn(key, at, call, after) ==
    /\ pcPoll = at
    /\ pcPoll' = IF key \in DOMAIN _additional_callbacks THEN call ELSE after
    /\ UNCHANGED <<skyVars, cfgVars, shared, _additional_callbacks, mainVars, ev, tmp, fired,
                   regTouched, rhist>>

Call(key, at, after) ==
    /\ pcPoll = at
    /\ key \in DOMAIN _additional_callbacks
    /\ fired' = Append(fired, Invocation(key))
    /\ pcPoll' = after
    /\ UNCHANGED <<skyVars, cfgVars, shared, _additional_callbacks, mainVars, ev, tmp,
                   regTouched, rhist>>

\* The subscript of a key that is absent raises KeyError in the poll thread.
CallKeyError(key, at) ==
    /\ pcPoll = at
    /\ key \notin DOMAIN _additional_callbacks
    /\ pcPoll' = "KeyError"
    /\ UNCHANGED <<skyVars, cfgVars, shared, _additional_callbacks, mainVars, ev, tmp, fired,
                   regTouched, rhist>>

_cb_button_L_in == KeyIn("L", "L_in", "L_call", "_cb_button_right")
_cb_button_L_call == Call("L", "L_call", "_cb_button_right")

\* Line 106, and the load of self._close_gripper of line 107.
_cb_button_right ==
    /\ pcPoll = "_cb_button_right"
    /\ IF Right(ev.buttons)
       THEN /\ tmp' = _close_gripper
            /\ pcPoll' = "R_store"
       ELSE /\ pcPoll' = "_cb_button_all"
            /\ UNCHANGED tmp
    /\ UNCHANGED <<skyVars, cfgVars, shared, _additional_callbacks, mainVars, ev, fired,
                   regTouched, rhist>>

\* Line 107: the negated operand is stored.
_cb_button_toggle ==
    /\ pcPoll = "R_store"
    /\ _close_gripper' = Toggled(tmp)
    /\ tmp' = FALSE
    /\ pcPoll' = "R_in"
    /\ PollWrote
    /\ UNCHANGED <<skyVars, cfgVars, _delta_pos, _delta_rot, _additional_callbacks, ev, fired,
                   regTouched, rhist>>

_cb_button_R_in == KeyIn("R", "R_in", "R_call", "_cb_button_all")
_cb_button_R_call == Call("R", "R_call", "_cb_button_all")

\* Line 110: if all(buttons)
_cb_button_all ==
    /\ pcPoll = "_cb_button_all"
    /\ pcPoll' = IF all(ev.buttons) THEN "LR_in" ELSE "returned"
    /\ UNCHANGED <<skyVars, cfgVars, shared, _additional_callbacks, mainVars, ev, tmp, fired,
                   regTouched, rhist>>

_cb_button_LR_in == KeyIn("LR", "LR_in", "LR_call", "returned")
\* the chord branch invoking the callable of the left button
_cb_button_LR_call_pasted == Call("L", "LR_call", "returned")
_cb_button_LR_call == Call("LR", "LR_call", "returned")

\* ---------------------------------------------------------------- Next
\* The steps of the caller thread that read or write the command buffers.
TeleopNext ==
    \/ advance_rot
    \/ advance_pos
    \/ advance_return
    \/ reset_65
    \/ reset_66
    \/ reset_67

\* The steps of the caller thread that register callables.
RegisterNext(keys, funcs) ==
    \/ \E key \in keys, func \in funcs : add_callback(key, func)
    \/ caller_continue

\* Teardown.
DelNext ==
    \/ __del__
    \/ join_return

\* _run_device
LoopNext ==
    \/ read_return
    \/ read_raise
    \/ sleep

_cb_dof ==
    \/ _cb_dof_pos
    \/ _cb_dof_rot

_cb_button ==
    \/ _cb_button_left
    \/ _cb_button_reset_pos
    \/ _cb_button_reset_rot
    \/ _cb_button_L_in
    \/ _cb_button_L_call
    \/ _cb_button_right
    \/ _cb_button_toggle
    \/ _cb_button_R_in
    \/ _cb_button_R_call
    \/ _cb_button_all
    \/ _cb_button_LR_in
    \/ _cb_button_LR_call

\* the button counts of the devices opened
ButtonCounts == 2..MaxButtons

\* A teleoperation loop: the caller polls advance() and resets, and registers at
\* most a callable for the right button; the device reports motion and buttons.
Next ==
    \/ __init__(ButtonCounts)
    \/ TeleopNext
    \/ RegisterNext({"R"}, {1})
    \/ DelNext
    \/ LoopNext
    \/ deliver_dof(DofStates)
    \/ deliver_button
    \/ _cb_dof
    \/ _cb_button

Spec == Init /\ [][Next]_vars

\* A caller that registers callables, with any key, while the device reports
\* buttons.
NextCallbacks ==
    \/ __init__(ButtonCounts)
    \/ RegisterNext(KeyInputs, Funcs)
    \/ LoopNext
    \/ deliver_button
    \/ _cb_button

SpecCallbacks == Init /\ [][NextCallbacks]_vars

\* A caller that registers one callable under the keys of the buttons while the
\* device reports motion and buttons.
NextChord ==
    \/ __init__(ButtonCounts)
    \/ RegisterNext(ValidKeys, {1})
    \/ LoopNext
    \/ deliver_dof(DofStates)
    \/ deliver_button
    \/ _cb_dof
    \/ _cb_button

SpecChord == Init /\ [][NextChord]_vars

\* The motion callback taken alone: adapters built with several sensitivities,
\* a device that reports motion only, a caller that does nothing.
InitDof == InitWith(Sensitivities)

NextDof ==
    \/ __init__({2})
    \/ LoopNext
    \/ deliver_dof(DofStatesWide)
    \/ _cb_dof

SpecDof == InitDof /\ [][NextDof]_vars

\* ======================================================================
\* sky_from_env_cfg (assets/light/sky.py)
\* ======================================================================
\* env_utils.Scenario: the three tags the match names, and two it does not
Scenarios == {"EARTH", "MARS", "ORBIT", "MOON", "ASTEROID"}

\* env_cfg.scenario.light_intensity
LightIntensities == {1000, 1361}

\* 0.25, in hundredths: intensity is kept in hundredths of the unit of
\* light_intensity
IntensityFactor == 25

\* a str, a 1-tuple of str, None
Str(v) == [kind |-> "str", value |-> v]
Tuple1(v) == [kind |-> "tuple", items |-> <<v>>]
None == [kind |-> "None"]

\* path.join(SRB_ASSETS_DIR_SRB_HDRI, name)
path_join(dir, name) == Str(<<dir, "/", name>>)

\* the match without the case of ORBIT
TextureFileNoOrbit(scenario) ==
    CASE scenario = "EARTH" ->
             Tuple1(<<"ISAAC_NUCLEUS_DIR",
                      "/Materials/Textures/Skies/PolyHaven/kloofendal_43d_clear_puresky_4k.hdr">>)
      [] scenario = "MARS" -> path_join("SRB_ASSETS_DIR_SRB_HDRI", "martian_sky_day.hdr")
      [] OTHER -> None

\* Lines 19-29: texture_file after the match.  The right-hand side of the EARTH
\* case ends in a comma inside the parentheses: it is a tuple of one string.
TextureFile(scenario) ==
    CASE scenario = "EARTH" ->
             Tuple1(<<"ISAAC_NUCLEUS_DIR",
                      "/Materials/Textures/Skies/PolyHaven/kloofendal_43d_clear_puresky_4k.hdr">>)
      [] scenario = "MARS" -> path_join("SRB_ASSETS_DIR_SRB_HDRI", "martian_sky_day.hdr")
      [] scenario = "ORBIT" -> path_join("SRB_ASSETS_DIR_SRB_HDRI", "low_lunar_orbit.jpg")
      [] OTHER -> None

\* the keyword arguments callers pass in spawn_kwargs and in **kwargs
SpawnKeys == {"color", "exposure", "intensity", "texture_file"}
AssetKeys == {"init_state", "spawn"}

\* the value a caller gives for a key
CallerValue(key) == <<"caller", key>>

KwargsOver(keys) == { [k \in K |-> CallerValue(k)] : K \in SUBSET keys }

\* f(a=..., b=..., **extra): the keywords given twice
Duplicates(named, extra) == named \cap DOMAIN extra

TypeError(keys) == [kind |-> "TypeError", multiple |-> keys]

\* Lines 33-41.  A keyword given both by name and through ** raises TypeError,
\* in DomeLightCfg(...) first since it is an argument of AssetBaseCfg(...).
sky_from_env_cfg(scenario, light_intensity, prim_path, spawn_kwargs, kwargs) ==
    LET texture_file == TextureFile(scenario)
    IN  IF texture_file = None
        THEN None
        ELSE IF Duplicates({"intensity", "texture_file"}, spawn_kwargs) # {}
        THEN TypeError(Duplicates({"intensity", "texture_file"}, spawn_kwargs))
        ELSE IF Duplicates({"prim_path", "spawn"}, kwargs) # {}
        THEN TypeError(Duplicates({"prim_path", "spawn"}, kwargs))
        ELSE [kind |-> "AssetBaseCfg",
              prim_path |-> prim_path,
              spawn |-> [kind |-> "DomeLightCfg",
                         intensity |-> IntensityFactor * light_intensity,
                         texture_file |-> texture_file,
                         more |-> spawn_kwargs],
              more |-> kwargs]

\* One call of sky_from_env_cfg.
sky_call ==
    /\ \E scenario \in Scenarios, li \in LightIntensities,
          prim_path \in {"/World/sky", "/World/dome"},
          spawn_kwargs \in KwargsOver(SpawnKeys), kwargs \in KwargsOver(AssetKeys) :
        /\ skyIn' = [called |-> TRUE, scenario |-> scenario, light_intensity |-> li,
                     prim_path |-> prim_path, spawn_kwargs |-> spawn_kwargs,
                     kwargs |-> kwargs]
        /\ skyOut' = sky_from_env_cfg(scenario, li, prim_path, spawn_kwargs, kwargs)
    /\ UNCHANGED <<cfgVars, shared, _additional_callbacks, mainVars, pollVars,
                   regTouched, rhist>>

NextSky == sky_call

SpecSky == Init /\ [][NextSky]_vars

\* ======================================================================
\* Properties
\* ======================================================================
\* _cb_button has returned and read() has not yet
ButtonReturned == pcPoll = "returned" /\ ev.type = "button"

\* the value advance() returns for cleared buffers
ZeroResult(r) ==
    /\ r.pos = Zero3
    /\ r.rot_vec = [exact |-> TRUE, v |-> Zero3]
    /\ r.gripper = FALSE

\* C1 as stated: after a button event with the left button pressed,
\* delta_position and delta_rotation are zero and the latch is false, whatever
\* the other button.
C1_LeftClearsAll ==
    (ButtonReturned /\ Left(ev.buttons)) =>
        (_delta_pos = Zero3 /\ _delta_rot = Zero3 /\ _close_gripper = FALSE)

\* C1 amended: after a button event with the left button pressed,
\* delta_position and delta_rotation are zero whatever the other button; the
\* latch is false when the right button is not pressed in that event.
C1_LeftClearsVectors ==
    (ButtonReturned /\ Left(ev.buttons)) =>
        /\ _delta_pos = Zero3
        /\ _delta_rot = Zero3
        /\ (~Right(ev.buttons) => _close_gripper = FALSE)

\* a left-only button event has returned
C1_Witness == ButtonReturned /\ Left(ev.buttons) /\ ~Right(ev.buttons)

\* C2 as stated: every button event with the right button pressed leaves the
\* latch the negation of what it was when the event began, and two such events
\* in a row restore it, whatever the left button.
C2_RightNegates ==
    (ButtonReturned /\ Right(ev.buttons) /\ Len(rhist) >= 1) =>
        /\ _close_gripper = ~rhist[Len(rhist)].latch
        /\ (Len(rhist) = 2 => _close_gripper = rhist[1].latch)

\* C2 amended: a button event with the right button pressed and the left one
\* not, during which the caller thread writes no reset, leaves the latch the
\* negation of what it was when the event began; two such events in a row, with
\* nothing between them, restore it.  With the left button pressed too, the
\* latch ends true whatever it was.
C2_RightOnlyNegates ==
    (ButtonReturned /\ Right(ev.buttons) /\ Len(rhist) >= 1) =>
        LET last == rhist[Len(rhist)]
        IN  /\ ~last.left => _close_gripper = ~last.latch
            /\ last.left => _close_gripper = TRUE
            /\ (Len(rhist) = 2 /\ ~last.left /\ ~rhist[1].left) =>
                   _close_gripper = rhist[1].latch

\* the second of two consecutive right-only events has returned, the latch
\* having been set before the first
C2_Witness ==
    /\ ButtonReturned
    /\ Len(rhist) = 2
    /\ ~rhist[1].left /\ ~rhist[2].left
    /\ rhist[1].latch = TRUE
    /\ _close_gripper = TRUE

\* C3: when open returned false or raised, no thread is ever started and every
\* advance() returns the zero 6-vector and a false latch.
C3_FailedOpenIsNoOp ==
    (opened \in {"false", "raise"}) =>
        /\ _thread = 0
        /\ pcPoll = "none"
        /\ (ret.valid => ZeroResult(ret))

\* advance() has returned on an adapter whose open raised
C3_Witness == opened = "raise" /\ ret.valid /\ pcMain = "idle"

\* a step of advance() by the caller thread
AdvanceStep ==
    \/ pcMain = "idle" /\ pcMain' = "advance_pos"
    \/ pcMain = "advance_pos" /\ pcMain' = "advance_gripper"
    \/ pcMain = "advance_gripper" /\ pcMain' = "idle"

\* C6: no step of advance() changes delta_position, delta_rotation, the latch or
\* the registry; and an advance() that returns when nothing was written since
\* the previous advance() began returns the value the previous one returned.
C6_AdvancePureRead ==
    [][AdvanceStep =>
        /\ UNCHANGED <<shared, _additional_callbacks>>
        /\ (pcMain = "advance_gripper" /\ advLocal.clean /\ ret.valid /\ ret.clean)
               => ret' = ret]_vars

\* a second advance() is about to return a set latch and non-zero vectors that
\* the first one returned too
C6_Witness ==
    /\ pcMain = "advance_gripper"
    /\ advLocal.clean
    /\ ret.valid /\ ret.clean
    /\ ret.gripper = TRUE
    /\ ret.pos # Zero3
    /\ advLocal.pos = ret.pos

\* C7: at most one polling thread is ever started; once __init__ is over there
\* is exactly one if and only if open returned success, and none before.
C7_OneThreadIffOpened ==
    /\ _thread <= 1
    /\ (pcMain = "__init__" => _thread = 0)
    /\ (pcMain # "__init__" => (_thread = 1 <=> opened = "success"))

\* the thread runs, and the caller has used advance(), add_callback() and the
\* device has delivered a button event
C7_Witness ==
    /\ _thread = 1
    /\ ret.valid
    /\ "R" \in DOMAIN _additional_callbacks
    /\ ButtonReturned

\* a step of the caller thread after construction
CallerStep == pcMain # "__init__" /\ pcMain' # pcMain

\* a step of reset() by the caller thread
ResetStep ==
    \/ pcMain = "idle" /\ pcMain' = "reset_pos"
    \/ pcMain = "reset_pos" /\ pcMain' = "reset_rot"
    \/ pcMain = "reset_rot" /\ pcMain' = "idle"

\* C8 as stated: after construction the caller thread never writes
\* delta_position, delta_rotation or the latch.
C8_PollIsSoleWriter == [][CallerStep => UNCHANGED shared]_vars

\* C8 amended: delta_position, delta_rotation and the latch are written by the
\* device callbacks on the polling thread and by reset(), which the caller
\* thread runs too; no other step of the caller thread (advance, add_callback,
\* teardown) and no step of the polling thread outside a callback changes them.
C8_WritersAreCallbacksAndReset ==
    [][/\ (CallerStep /\ ~ResetStep) => UNCHANGED shared
       /\ (pcPoll' # pcPoll /\ pcPoll \in {"none", "read", "sleep", "returned", "dead"})
              => UNCHANGED shared]_vars

\* the caller is inside reset() with the vectors still set by a motion event
C8_Witness == pcMain = "reset_pos" /\ _delta_pos # Zero3 /\ _delta_rot # Zero3

\* the keys the specification names
SpecKeys == {"left", "right", "left+right"}

\* the step of the caller thread that is a call of add_callback
AddCallbackStep == pcMain = "idle" /\ pcMain' \in {"ValueError", "add_callback_done"}

\* C4 as stated: add_callback with a key outside {"left", "right",
\* "left+right"} raises and leaves the registry as it was.
C4_RejectsOutsideSpecKeys ==
    [][(AddCallbackStep /\ arg'.key \notin SpecKeys) =>
          (pcMain' = "ValueError" /\ UNCHANGED _additional_callbacks)]_vars

\* C4 amended: add_callback with a key outside {"L", "R", "LR"} raises
\* ValueError and leaves the registry as it was.
C4_RejectsOutsideCodeKeys ==
    [][(AddCallbackStep /\ arg'.key \notin {"L", "R", "LR"}) =>
          (pcMain' = "ValueError" /\ UNCHANGED _additional_callbacks)]_vars

\* add_callback("left", ...) has raised on a registry that holds an entry
C4_Witness ==
    /\ pcMain = "ValueError"
    /\ arg.key = "left"
    /\ DOMAIN _additional_callbacks # {}

\* the button event a key stands for
Matches(key, buttons) ==
    CASE key = "L" -> buttons[1]
      [] key = "R" -> buttons[2]
      [] key = "LR" -> \A i \in DOMAIN buttons : buttons[i]

\* the invocations of the callable of a key during the current button event
FiredFor(key) == {i \in 1..Len(fired) : fired[i].key = key}

\* C5 as stated: add_callback succeeds for the keys "left", "right" and
\* "left+right" and stores the action under the key.
C5_AcceptsSpecKeys ==
    [][(AddCallbackStep /\ arg'.key \in SpecKeys) =>
          /\ pcMain' = "add_callback_done"
          /\ arg'.key \in DOMAIN _additional_callbacks'
          /\ _additional_callbacks'[arg'.key] = arg'.func]_vars

\* what a finished button event has invoked, the registry not having been
\* stored into since the event was delivered
InvokedAsRegistered ==
    (ButtonReturned /\ ~regTouched) =>
        \A key \in {"L", "R", "LR"} :
            IF Matches(key, ev.buttons) /\ key \in DOMAIN _additional_callbacks
            THEN /\ Cardinality(FiredFor(key)) = 1
                 /\ \A i \in FiredFor(key) : fired[i].func = _additional_callbacks[key]
            ELSE FiredFor(key) = {}

\* C5 amended: add_callback succeeds for the keys "L", "R" and "LR" and stores
\* the action under the key; a button event invokes, once each, the actions
\* registered under "L" when button 0 is pressed, under "R" when button 1 is
\* pressed, under "LR" when every button of the device is pressed, and no other.
C5_AcceptsCodeKeysAndInvokes ==
    [][/\ (AddCallbackStep /\ arg'.key \in {"L", "R", "LR"}) =>
             /\ pcMain' = "add_callback_done"
             /\ arg'.key \in DOMAIN _additional_callbacks'
             /\ _additional_callbacks'[arg'.key] = arg'.func
       /\ InvokedAsRegistered']_vars

\* a three-button device has reported all buttons pressed and the three
\* registered callables, not all the same, were invoked
C5_Witness ==
    /\ ButtonReturned /\ ~regTouched
    /\ Len(ev.buttons) = 3
    /\ all(ev.buttons)
    /\ Len(fired) = 3
    /\ _additional_callbacks["L"] # _additional_callbacks["LR"]

\* the motion callback has returned and read() has not yet
DofReturned == pcPoll = "returned" /\ ev.type = "dof"

\* the event of the example: x = 1, y = 2, z = 3, roll = 0.1, pitch = 0.2, yaw = 0.3
ExampleState == [x |-> 10, y |-> 20, z |-> 30, roll |-> 1, pitch |-> 2, yaw |-> 3]

\* C9: after a motion event (x, y, z, roll, pitch, yaw), delta_position is
\* (y, -x, z) times pos_sensitivity and delta_rotation is (-roll, -pitch, -yaw)
\* times rot_sensitivity, whatever the vectors were before; with 0.4 and 0.8
\* the event (1, 2, 3, 0.1, 0.2, 0.3) gives (0.8, -0.4, 1.2) and
\* (-0.08, -0.16, -0.24).
C9_MotionOverwrites ==
    DofReturned =>
        /\ _delta_pos = <<ev.state.y * pos_sensitivity,
                          (0 - ev.state.x) * pos_sensitivity,
                          ev.state.z * pos_sensitivity>>
        /\ _delta_rot = <<(0 - ev.state.roll) * rot_sensitivity,
                          (0 - ev.state.pitch) * rot_sensitivity,
                          (0 - ev.state.yaw) * rot_sensitivity>>
        /\ (ev.state = ExampleState /\ pos_sensitivity = 4 /\ rot_sensitivity = 8) =>
               (_delta_pos = <<80, -40, 120>> /\ _delta_rot = <<-8, -16, -24>>)

\* the example event has been handled by an adapter with the default
\* sensitivities
C9_Witness ==
    /\ DofReturned
    /\ ev.state = ExampleState
    /\ pos_sensitivity = 4 /\ rot_sensitivity = 8
    /\ _delta_pos = <<80, -40, 120>>

\* the call passes no keyword twice
NoDuplicateKeyword ==
    /\ {"intensity", "texture_file"} \cap DOMAIN skyIn.spawn_kwargs = {}
    /\ "spawn" \notin DOMAIN skyIn.kwargs

\* C10: sky_from_env_cfg returns a light descriptor for EARTH, MARS and ORBIT
\* (here: in every call that passes no keyword twice) and returns None, raising
\* nothing, for every other scenario, whatever the other arguments.
C10_DescriptorIffKnownScenario ==
    skyIn.called =>
        /\ (skyIn.scenario \in {"EARTH", "MARS", "ORBIT"} /\ NoDuplicateKeyword)
               => skyOut.kind = "AssetBaseCfg"
        /\ skyIn.scenario \notin {"EARTH", "MARS", "ORBIT"} => skyOut = [kind |-> "None"]

\* a descriptor was returned for ORBIT
C10_Witness ==
    /\ skyIn.called
    /\ skyIn.scenario = "ORBIT"
    /\ skyOut.kind = "AssetBaseCfg"

\* the value the descriptor's light carries for a spawn parameter
SpawnValue(out, key) ==
    IF key \in DOMAIN out.spawn.more THEN out.spawn.more[key]
    ELSE IF key = "intensity" THEN out.spawn.intensity
    ELSE out.spawn.texture_file

\* C11: for a known scenario, whatever spawn_kwargs holds (the keys intensity
\* and texture_file included), sky_from_env_cfg returns a descriptor, raising
\* nothing, and the light carries the caller's value for every key of
\* spawn_kwargs.
C11_OverridesTakePrecedence ==
    (/\ skyIn.called
     /\ skyIn.scenario \in {"EARTH", "MARS", "ORBIT"}
     /\ "spawn" \notin DOMAIN skyIn.kwargs)
        => /\ skyOut.kind = "AssetBaseCfg"
           /\ \A key \in DOMAIN skyIn.spawn_kwargs :
                  SpawnValue(skyOut, key) = skyIn.spawn_kwargs[key]

\* C12: add_callback for a key that already has an action raises nothing
\* and replaces that action, the entries of the other keys staying as they
\* were; whenever a button event invokes the action of a key, it is the one
\* the registry holds for it, that of the latest registration.
C12_ReRegistrationReplaces ==
    [][/\ (AddCallbackStep /\ arg'.key \in DOMAIN _additional_callbacks) =>
             /\ pcMain' = "add_callback_done"
             /\ DOMAIN _additional_callbacks' = DOMAIN _additional_callbacks
             /\ _additional_callbacks'[arg'.key] = arg'.func
             /\ \A k \in DOMAIN _additional_callbacks \ {arg'.key} :
                    _additional_callbacks'[k] = _additional_callbacks[k]
       /\ Len(fired') > Len(fired) =>
             fired'[Len(fired')].func = _additional_callbacks[fired'[Len(fired')].key]]_vars

\* during one button event the action 1 registered under "L" was invoked,
\* then add_callback("L", 2) replaced it while "R" kept its action 1
C12_Witness ==
    /\ pcMain = "add_callback_done"
    /\ arg = [key |-> "L", func |-> 2]
    /\ Len(fired) >= 1 /\ fired[1].key = "L" /\ fired[1].func = 1
    /\ DOMAIN _additional_callbacks = {"L", "R"}
    /\ _additional_callbacks["L"] = 2
    /\ _additional_callbacks["R"] = 1

\* the chord read as the left and the right button both pressed
MatchesBoth(key, buttons) ==
    IF key = "LR" THEN buttons[1] /\ buttons[2] ELSE Matches(key, buttons)

\* the keys of the invocations of the current button event, in order
FiredKeys == [i \in 1..Len(fired) |-> fired[i].key]

\* the latch, the position and the rotation an invocation found
Seen(i) == fired[i].seen

\* A finished button event, the registry not stored into meanwhile, has run
\* its branches in the order left, right, chord (M tells which events a key
\* stands for), and each callable found the buffers as the steps before it
\* left them: the left one the cleared buffers, the right one the latch
\* negated (after the clearing if the left button was pressed too) and the
\* vectors as they are, the chord one the latch set and the vectors cleared.
BranchesInOrder(M(_, _)) ==
    (ButtonReturned /\ ~regTouched) =>
        LET due(key) == M(key, ev.buttons) /\ key \in DOMAIN _additional_callbacks
        IN  /\ FiredKeys = SelectSeq(<<"L", "R", "LR">>, due)
            /\ \A i \in 1..Len(fired) :
                /\ fired[i].key = "L" => Seen(i) = <<FALSE, Zero3, Zero3>>
                /\ fired[i].key = "R" =>
                       /\ Seen(i)[1] = IF Left(ev.buttons) THEN TRUE
                                       ELSE ~rhist[Len(rhist)].latch
                       /\ Seen(i)[2] = _delta_pos /\ Seen(i)[3] = _delta_rot
                       /\ Left(ev.buttons) => (Seen(i)[2] = Zero3 /\ Seen(i)[3] = Zero3)
                /\ fired[i].key = "LR" => Seen(i) = <<TRUE, Zero3, Zero3>>

\* C13 as stated: the three branches run in the order left (reset, then the
\* left action), right (toggle, then the right action), chord (the left+right
\* action when the left and the right button are both pressed), each action
\* finding the state the steps before it left.
C13_ChordOfLeftAndRight == BranchesInOrder(MatchesBoth)

\* C13 amended: the same, the chord branch running when every button of the
\* device is pressed.
C13_ChordOfAllButtons == BranchesInOrder(Matches)

\* after a motion event, a chord on a two-button device has invoked the three
\* callables in order, the second finding the latch set
C13_Witness ==
    /\ ButtonReturned /\ ~regTouched
    /\ Len(ev.buttons) = 2 /\ all(ev.buttons)
    /\ FiredKeys = <<"L", "R", "LR">>
    /\ Seen(2) = <<TRUE, Zero3, Zero3>>

\* C14: the polling thread ends only by pyspacemouse.read() raising, and
\* __del__ returns only once the thread has ended: no execution in which
\* read() never raises reaches the closed adapter.
C14_ClosedOnlyAfterReadRaised ==
    [][/\ (pcPoll' = "dead" /\ pcPoll # "dead") => pcPoll = "read"
       /\ pcMain' = "closed" => pcPoll' = "dead"]_vars

\* __del__ is waiting in join() while the thread, a motion event handled, is
\* about to go round its loop again
C14_Witness ==
    /\ pcMain = "join"
    /\ DofReturned
    /\ _thread = 1

\* the motion event of index i
DofStateOf(i) ==
    [x |-> 10 * i, y |-> 20 * i, z |-> 30 * i, roll |-> i, pitch |-> 2 * i, yaw |-> 3 * i]

\* C15: one advance() can return the position of one motion event with the
\* rotation of another (C15_Witness is such a result, which is reachable);
\* an advance() that no write of the polling thread overlapped returns the
\* three buffers as they are when it returns, so that such a mix of two
\* finished events needs a write between the reads of lines 77 and 78.
C15_MixNeedsOverlappingWrite ==
    [][(pcMain = "advance_gripper" /\ pcMain' = "idle" /\ advLocal.clean) =>
          /\ ret'.valid
          /\ ret'.pos = _delta_pos
          /\ ret'.rot_vec = as_rotvec(_delta_rot)
          /\ ret'.gripper = _close_gripper]_vars

\* advance() has returned the position of the motion event of index 1 and
\* the rotation of the motion event of index -1, a write having come between
\* its reads
C15_Witness ==
    /\ ret.valid /\ ~ret.clean
    /\ pcPoll = "returned"
    /\ ret.pos = DofPos(DofStateOf(1), pos_sensitivity)
    /\ ret.rot_vec.v = DofRot(DofStateOf(0 - 1), rot_sensitivity)

\* a step of the polling thread
PollStep == pcPoll' # pcPoll

\* C16: the latch changes only in a reset() the caller runs, or in the
\* callback of a button event with the left button pressed (its reset) or the
\* right button pressed (its toggle); motion events, advance(), add_callback
\* and button events with neither of the two pressed leave it as it is, and no
\* step of the polling thread changes the registry.
C16_LatchFrame ==
    [][/\ _close_gripper' # _close_gripper =>
             \/ pcMain = "idle" /\ pcMain' = "reset_pos"
             \/ /\ PollStep
                /\ ev.type = "button"
                /\ \/ pcPoll = "_cb_button" /\ Left(ev.buttons)
                   \/ pcPoll = "R_store" /\ Right(ev.buttons)
       /\ PollStep => UNCHANGED _additional_callbacks]_vars

\* a button event with neither the left nor the right button pressed has
\* been handled, the latch staying set and the registered callable in place
C16_Witness ==
    /\ ButtonReturned
    /\ ~Left(ev.buttons) /\ ~Right(ev.buttons)
    /\ _close_gripper
    /\ "R" \in DOMAIN _additional_callbacks

\* C17: for each of the scenarios EARTH, MARS and ORBIT the descriptor carries
\* one texture source of the same kind, a single path string, never a tuple
\* or another collection.
C17_TextureIsOnePathString ==
    (skyIn.called /\ skyOut.kind = "AssetBaseCfg") =>
        skyOut.spawn.texture_file.kind = "str"

\* C18: __del__ of an adapter whose open failed (it returned false or
\* raised) completes without raising and without joining a thread.
C18_TeardownAfterFailedOpen ==
    opened \in {"false", "raise"} => pcMain \notin {"AttributeError", "join"}

\* the key the polling thread is about to subscript the registry with
CallKey ==
    CASE pcPoll = "L_call" -> "L"
      [] pcPoll = "R_call" -> "R"
      [] pcPoll = "LR_call" -> "LR"
      [] OTHER -> "none"

\* C19: the keys of the registry are among those add_callback accepts, no
\* step removes a key, and so, however add_callback interleaves with the
\* button callback, the key the callback found present at its test is still
\* present when it subscripts the registry: no KeyError.
C19_KeysStayPresent ==
    [][/\ DOMAIN _additional_callbacks' \subseteq {"L", "R", "LR"}
       /\ DOMAIN _additional_callbacks \subseteq DOMAIN _additional_callbacks'
       /\ CallKey' # "none" => CallKey' \in DOMAIN _additional_callbacks']_vars

\* add_callback("R", ...) has stored between the test for "L" and the call of
\* its callable
C19_Witness ==
    /\ pcPoll = "L_call"
    /\ pcMain = "add_callback_done"
    /\ regTouched
    /\ arg.key = "R"
    /\ DOMAIN _additional_callbacks = {"L", "R"}

====
